---- MODULE Spec2Model ----
(***************************************************************************)
(* Credential broker and session tokens of wx-open-project                 *)
(* (src/app/models/__init__.py).                                           *)
(*                                                                         *)
(* Spec        : concurrent requests of one tenant running                 *)
(*               WXAuthorizer.get_access_token, get_jsapi_ticket and       *)
(*               get_card_api_ticket against Redis, the tenant table and   *)
(*               the platform, within one clock instant.                   *)
(* SpecClock   : one request after the other, on every tenant, while the   *)
(*               clock advances and cache entries expire.                  *)
(* SpecSession : Admin.generate_token / Admin.query_by_token.              *)
(* SpecAccount : the same with change_password, login and tokens of other  *)
(*               roles.                                                    *)
(* SpecSign    : WXAuthorizer.generate_card_sign on two parameter dicts.   *)
(* SpecTenant  : one wx_authorizer row: create_wx_authorizer, unauthorized,*)
(*               update_refresh_token, update_authorizer_info.             *)
(* SpecLive    : SpecClock's requests, fairly scheduled, with a platform   *)
(*               that may never answer.                                    *)
(* SpecInvalid : the broker methods and send_custom_message, with a        *)
(*               platform that may answer "invalid credential".            *)
(* SpecCrash   : one request after the other, where a request may die      *)
(*               inside get_access_token.                                  *)
(* SpecSerial  : one request after the other within one clock instant.     *)
(* SpecIssued  : Spec, with the platform's latest refresh_token followed.  *)
(* SpecRevoke  : SpecSerial, while tenants call unauthorized().            *)
(* SpecMalformed: Admin.query_by_token on tokens that do not decrypt or do *)
(*               not hold three fields.                                    *)
(* SpecCard    : generate_add_card_params / generate_choose_card_params.   *)
(***************************************************************************)
EXTENDS Integers, Sequences, FiniteSets, TLC

VARIABLES
    now,        \* time.time(), in seconds
    redis,      \* redis_client: key -> entry
    db,         \* table wx_authorizer: appid -> row
    dbWrites,   \* save() calls the table has received, per appid
    proc,       \* one record per request: position and locals
    started,    \* broker calls started so far
    admins,     \* table admin: the ids of its rows
    tokens,     \* session tokens handed out by Admin.generate_token
    lastQuery,  \* the last Admin.query_by_token call and what it returned
    rows,       \* table admin: id -> the row's password and timestamps
    signed,     \* the generate_card_sign calls made on two parameter dicts
    wx,         \* one wx_authorizer row through its life, and the objects loaded from it
    rejected,   \* cached access tokens the platform answered "invalid credential" for
    issued,     \* appid -> the refresh_token of the platform's last complete answer,
                \* where a specification follows it
    card        \* the last generate_add_card_params / generate_choose_card_params call

vars == <<now, redis, db, dbWrites, proc, started, admins, tokens, lastQuery, rows, signed, wx, rejected,
          issued, card>>

---------------------------------------------------------------------------
(* Bounds of the model *)

\* clock horizon of the broker specification, seconds
MaxNow == 3600
\* one clock step of the broker specification, seconds
TickStep == 1800
\* broker calls started in one behaviour
MaxCalls == 3

\* concurrent request slots
Procs == {"p1", "p2"}
\* tenants (authorizer appids)
Tenants == {"wxA", "wxB"}
\* the tenant the concurrent requests of Spec work for
RaceTenants == {"wxA"}
\* refresh tokens the platform hands out
RefreshTokens == {"r1", "r2"}
\* expires_in values the platform reports
ExpiresInValues == {300, 600, 3600}

---------------------------------------------------------------------------
(* Program constants *)

\* "ex=int(expires_in) - 600": refresh ten minutes ahead
RefreshAhead == 600

Kinds == {"access_token", "jsapi_ticket", "card_api_ticket"}
Ops == {"access", "jsapi", "card"}

\* Python None / a missing JSON field, for credentials
NoToken == [t |-> "", k |-> "", by |-> "", iat |-> 0, e |-> 0]
\* the instant the platform stops honouring a credential
PlatformExpiry(tok) == tok.iat + tok.e
\* an empty Redis slot (ttl: the entry carries an expiry)
NoEntry == [present |-> FALSE, val |-> NoToken, ttl |-> FALSE, exp |-> 0, setAt |-> 0]

\* 'wx_authorizer:%s:access_token' % self.appid  (and the two ticket keys)
\* variant of Key that leaves the appid out of the key
Key_NoTenant(appid, kind) == <<"wx_authorizer", "wxA", kind>>

Key(appid, kind) == <<"wx_authorizer", appid, kind>>
Keys == {Key(t, k) : t \in Tenants, k \in Kinds}

\* the ticket kind an operation caches under
TicketKind(op) == IF op = "jsapi" THEN "jsapi_ticket" ELSE "card_api_ticket"

\* the entry has not expired at the given instant
Live(en, at) == en.present /\ (en.ttl => at < en.exp)

\* variant of RedisGet that answers only for tenants whose authorization is
\* active
RedisGet_Authorized(key) ==
    IF db[key[2]].authorized /\ Live(redis[key], now) THEN redis[key].val ELSE NoToken

\* redis_client.get(key): the value, or None once the entry has expired
RedisGet(key) == IF Live(redis[key], now) THEN redis[key].val ELSE NoToken

\* what redis_client.set(key, value, ex=ex) can do. Redis accepts SET ... EX
\* seconds only for seconds > 0 and answers an error otherwise, which the
\* client raises. A client that tests "if ex:" sends no EX at all for ex = 0,
\* and the value is stored without an expiry; one that tests "ex is not None"
\* sends EX 0 and raises. The client's version is not pinned, so both happen.
RedisSetOutcomes(ex) ==
    IF ex > 0 THEN {"expiring"}
    ELSE IF ex = 0 THEN {"refused", "persistent"}
    ELSE {"refused"}

\* redis_client.set(key, value, ex=ex) when it is accepted
RedisSet(key, value, ex, outcome) ==
    [redis EXCEPT ![key] = [present |-> TRUE, val |-> value, ttl |-> outcome = "expiring",
                            exp |-> IF outcome = "expiring" THEN now + ex ELSE 0,
                            setAt |-> now]]

\* the ex argument the broker passes: int(expires_in) - 600
CacheTtl(expires_in) == expires_in - RefreshAhead

\* variant of AuthRespComplete that does not ask for the refresh token
AuthRespComplete_NoRefresh(at, e, rt) == at # NoToken /\ e # 0

\* all((access_token, expires_in, refresh_token))
AuthRespComplete(at, e, rt) == at # NoToken /\ e # 0 /\ rt # ""

\* jsapi_ticket and expires_in
TicketRespComplete(tk, e) == tk # NoToken /\ e # 0

\* if self.refresh_token != refresh_token
NeedsRotation(self_rt, rt) == self_rt # rt

---------------------------------------------------------------------------
(* Requests *)

IdleProc ==
    [pc |-> "idle", op |-> "access", t |-> "wxA",
     self_rt |-> "", acc |-> NoToken, val |-> NoToken, e |-> 0, nrt |-> "",
     res |-> NoToken,
     hit |-> FALSE, left |-> 0, lag |-> 0, comp |-> "none", resp |-> "none", tresp |-> "none",
     failedAt |-> "", errcode |-> "none", after |-> "",
     nComp |-> 0, nAuth |-> 0, nDb |-> 0, nSetA |-> 0, nTicket |-> 0, nSetT |-> 0]

\* no token has been presented yet
NoQuery == [asked |-> FALSE, tok |-> [token |-> <<>>, subject |-> 0, iat |-> 0, pw |-> 0],
            at |-> 0, pw |-> 0, result |-> 0]

\* requests that hold a WXAuthorizer object of the row at the same time
Handles == {"h1", "h2"}

\* no row of the appid in table wx_authorizer
NoRow == [exists |-> FALSE, authorized |-> FALSE, refresh_token |-> "", func_info |-> "",
          authorizer_info |-> "", update_time |-> 0]

\* a request that has not loaded the row (dirty: the fields assigned since the
\* object was loaded or saved)
NoObject == [loaded |-> FALSE, authorized |-> FALSE, refresh_token |-> "", func_info |-> "",
             authorizer_info |-> "", update_time |-> 0, dirty |-> {}]

\* what the last update_authorizer_info call did
NoSync == [called |-> FALSE, differed |-> FALSE, wrote |-> FALSE, bumped |-> FALSE,
           stale |-> FALSE]

\* the appid before its first authorization (clock: datetime.datetime.now();
\* writes: INSERTs and UPDATEs the table received; revoked: unauthorized() has
\* written authorized = False)
NoAuthorizer ==
    [row |-> NoRow, obj |-> [h \in Handles |-> NoObject], clock |-> 0, writes |-> 0,
     calls |-> 0, revoked |-> FALSE, sync |-> NoSync]

\* no card parameter method has been called yet (ticket: what
\* get_card_api_ticket returned; sign: what generate_card_sign returned; map:
\* the dict the method returned)
NoCard == [called |-> FALSE, method |-> "", ticket |-> <<>>, sign |-> <<>>, map |-> <<>>]

\* generate_card_sign has not been called yet
NoSign == [done |-> FALSE, a |-> <<>>, b |-> <<>>, ticket |-> <<>>, sa |-> <<>>, sb |-> <<>>]

Init ==
    /\ now = 0
    /\ redis = [k \in Keys |-> NoEntry]
    /\ db = [t \in Tenants |-> [refresh_token |-> "r1", update_time |-> 0, authorized |-> TRUE]]
    /\ dbWrites = [t \in Tenants |-> 0]
    /\ proc = [p \in Procs |-> IdleProc]
    /\ started = 0
    /\ admins = {}
    /\ tokens = {}
    /\ lastQuery = NoQuery
    /\ rows = [id \in {} |-> 0]
    /\ signed = NoSign
    /\ wx = NoAuthorizer
    /\ rejected = {}
    /\ issued = [t \in Tenants |-> ""]
    /\ card = NoCard

Finished(pr) == pr.pc \in {"done", "raised"}

\* the request is over: its locals are gone, what it did and returned remains
Over(pr, pc, r) ==
    [pr EXCEPT !.pc = pc, !.res = r, !.self_rt = "", !.acc = NoToken, !.val = NoToken,
               !.nrt = ""]

\* the request is answered from the cache entry under key: how much platform-side
\* lifetime the credential has left, and how long after its issuance it was cached
CacheHit(pr, key) ==
    [pr EXCEPT !.hit = TRUE,
               !.left = PlatformExpiry(redis[key].val) - now,
               !.lag = redis[key].setAt - redis[key].val.iat]

\* an exception leaves the broker method at the named step
Raise(pr, step) == Over([pr EXCEPT !.failedAt = step], "raised", NoToken)

\* variant of AccessReturn that starts the method over after a first failure
AccessReturn_Retry(pr, r) ==
    IF r = NoToken /\ pr.nComp = 1 /\ pr.nAuth <= 1
    THEN [pr EXCEPT !.pc = "a_comp"]
    ELSE IF pr.op = "access" \/ r = NoToken
    THEN Over(pr, "done", r)
    ELSE [pr EXCEPT !.pc = "t_fetch", !.acc = r, !.val = NoToken, !.e = 0, !.nrt = ""]

\* variant of AccessReturn in which the ticket methods go on without a token
AccessReturn_NoShortCircuit(pr, r) ==
    IF pr.op = "access"
    THEN Over(pr, "done", r)
    ELSE [pr EXCEPT !.pc = "t_fetch", !.acc = r, !.val = NoToken, !.e = 0, !.nrt = ""]

\* "return x" of get_access_token: to the caller of the request, or back into
\* the method that called it ("if not access_token: return"): a ticket method
\* goes on to its requests.get, send_custom_message to its requests.post
AccessReturn(pr, r) ==
    IF pr.op = "access" \/ r = NoToken
    THEN Over(pr, "done", r)
    ELSE [pr EXCEPT !.pc = IF pr.op = "send" THEN "s_post" ELSE "t_fetch",
                    !.acc = r, !.val = NoToken, !.e = 0, !.nrt = ""]

\* a request loads the tenant row (query_by_appid) and calls one broker method
Begin(p, tenants) ==
    /\ proc[p].pc \in {"idle", "done", "raised"}
    /\ started < MaxCalls
    /\ started' = started + 1
    /\ \E t \in tenants, op \in Ops :
         proc' = [proc EXCEPT ![p] =
                    [IdleProc EXCEPT !.pc = IF op = "access" THEN "a_get" ELSE "t_get",
                                     !.op = op, !.t = t,
                                     !.self_rt = db[t].refresh_token]]
    /\ UNCHANGED <<now, redis, db, dbWrites, admins, tokens, lastQuery, rows, signed, wx, rejected, issued, card>>

\* get_access_token: redis_client.get(key); if access_token: return access_token
get_access_token_cached(p) ==
    /\ proc[p].pc = "a_get"
    /\ LET pr == proc[p]
           v == RedisGet(Key(pr.t, "access_token"))
       IN proc' = [proc EXCEPT ![p] =
                     IF v # NoToken
                     THEN AccessReturn(IF pr.op = "access" THEN CacheHit(pr, Key(pr.t, "access_token"))
                                       ELSE pr, v)
                     ELSE [pr EXCEPT !.pc = "a_comp"]]
    /\ UNCHANGED <<now, redis, db, dbWrites, started, admins, tokens, lastQuery, rows, signed, wx, rejected, issued, card>>

\* get_component_access_token(wx); if not component_access_token: return
get_access_token_component(p) ==
    /\ proc[p].pc = "a_comp"
    /\ \E ok \in BOOLEAN :
         LET pr == [proc[p] EXCEPT !.nComp = @ + 1,
                                   !.comp = IF ok THEN "ok" ELSE "absent"]
         IN proc' = [proc EXCEPT ![p] =
                       IF ok THEN [pr EXCEPT !.pc = "a_post"]
                       ELSE AccessReturn(pr, NoToken)]
    /\ UNCHANGED <<now, redis, db, dbWrites, started, admins, tokens, lastQuery, rows, signed, wx, rejected, issued, card>>

\* a credential of the given kind the platform issues now to request p for
\* tenant t, valid for e seconds
Fresh(p, t, kind, e) == [t |-> t, k |-> kind, by |-> p, iat |-> now, e |-> e]

\* requests.post(api_authorizer_token).json(), the three resp_json.get, and
\* "if not all(...): return"
api_authorizer_token(p) ==
    /\ proc[p].pc = "a_post"
    /\ LET pr == [proc[p] EXCEPT !.nAuth = @ + 1] IN
       \/ \* the transport or the JSON parse raises
          proc' = [proc EXCEPT ![p] = Raise(pr, "post")]
       \/ \E e \in ExpiresInValues \cup {0}, rt \in RefreshTokens \cup {""}, withToken \in BOOLEAN :
            LET at == IF withToken THEN Fresh(p, pr.t, "access_token", e) ELSE NoToken
                whole == withToken /\ e \in ExpiresInValues /\ rt \in RefreshTokens
                got == [pr EXCEPT !.resp = IF whole THEN "full" ELSE "partial"]
            IN proc' = [proc EXCEPT ![p] =
                          IF AuthRespComplete(at, e, rt)
                          THEN [got EXCEPT !.pc = "a_upd", !.val = at, !.e = e, !.nrt = rt]
                          ELSE AccessReturn(got, NoToken)]
    /\ UNCHANGED <<now, redis, db, dbWrites, started, admins, tokens, lastQuery, rows, signed, wx, rejected,
                   card>>

get_access_token_fetch(p) ==
    /\ api_authorizer_token(p)
    /\ UNCHANGED issued

\* the same step where the platform's answers are followed: a complete answer
\* is the platform's latest refresh_token for the tenant
get_access_token_fetch_issued(p) ==
    /\ api_authorizer_token(p)
    /\ issued' = IF proc'[p].pc = "a_upd"
                 THEN [issued EXCEPT ![proc[p].t] = proc'[p].nrt]
                 ELSE issued

\* self.update_refresh_token(refresh_token)
update_refresh_token(p) ==
    /\ proc[p].pc = "a_upd"
    /\ LET pr == [proc[p] EXCEPT !.pc = "a_set"]
       IN IF NeedsRotation(pr.self_rt, pr.nrt)
          THEN /\ db' = [db EXCEPT ![pr.t].refresh_token = pr.nrt, ![pr.t].update_time = now]
               /\ dbWrites' = [dbWrites EXCEPT ![pr.t] = @ + 1]
               /\ proc' = [proc EXCEPT ![p] = [pr EXCEPT !.self_rt = pr.nrt, !.nDb = @ + 1]]
          ELSE /\ db' = db
               /\ dbWrites' = dbWrites
               /\ proc' = [proc EXCEPT ![p] = pr]
    /\ UNCHANGED <<now, redis, started, admins, tokens, lastQuery, rows, signed, wx, rejected, issued, card>>

\* redis_client.set(key, access_token, ex=int(expires_in) - 600); return access_token
get_access_token_store(p) ==
    /\ proc[p].pc = "a_set"
    /\ LET pr == proc[p]
           ex == CacheTtl(pr.e)
       IN \E outcome \in RedisSetOutcomes(ex) :
            IF outcome # "refused"
            THEN /\ redis' = RedisSet(Key(pr.t, "access_token"), pr.val, ex, outcome)
                 /\ proc' = [proc EXCEPT ![p] =
                                AccessReturn([pr EXCEPT !.nSetA = @ + 1], pr.val)]
            ELSE /\ redis' = redis
                 /\ proc' = [proc EXCEPT ![p] = Raise(pr, "set")]
    /\ UNCHANGED <<now, db, dbWrites, started, admins, tokens, lastQuery, rows, signed, wx, rejected, issued, card>>

\* get_jsapi_ticket / get_card_api_ticket: redis_client.get(key); if ticket: return
get_ticket_cached(p) ==
    /\ proc[p].pc = "t_get"
    /\ LET pr == proc[p]
           v == RedisGet(Key(pr.t, TicketKind(pr.op)))
       IN proc' = [proc EXCEPT ![p] =
                     IF v # NoToken
                     THEN Over(CacheHit(pr, Key(pr.t, TicketKind(pr.op))), "done", v)
                     ELSE [pr EXCEPT !.pc = "a_get"]]
    /\ UNCHANGED <<now, redis, db, dbWrites, started, admins, tokens, lastQuery, rows, signed, wx, rejected, issued, card>>

\* requests.get(getticket).json(), the two resp_json.get, "if not (...): return"
get_ticket_fetch(p) ==
    /\ proc[p].pc = "t_fetch"
    /\ LET pr == [proc[p] EXCEPT !.nTicket = @ + 1] IN
       \/ proc' = [proc EXCEPT ![p] = Raise(pr, "tget")]
       \/ \E e \in ExpiresInValues \cup {0}, withTicket \in BOOLEAN :
            LET tk == IF withTicket THEN Fresh(p, pr.t, TicketKind(pr.op), e) ELSE NoToken
                whole == withTicket /\ e \in ExpiresInValues
                got == [pr EXCEPT !.tresp = IF whole THEN "full" ELSE "partial"]
            IN proc' = [proc EXCEPT ![p] =
                          IF TicketRespComplete(tk, e)
                          THEN [got EXCEPT !.pc = "t_set", !.val = tk, !.e = e]
                          ELSE Over(got, "done", NoToken)]
    /\ UNCHANGED <<now, redis, db, dbWrites, started, admins, tokens, lastQuery, rows, signed, wx, rejected, issued, card>>

\* redis_client.set(key, ticket, ex=int(expires_in) - 600); return ticket
get_ticket_store(p) ==
    /\ proc[p].pc = "t_set"
    /\ LET pr == proc[p]
           ex == CacheTtl(pr.e)
       IN \E outcome \in RedisSetOutcomes(ex) :
            IF outcome # "refused"
            THEN /\ redis' = RedisSet(Key(pr.t, TicketKind(pr.op)), pr.val, ex, outcome)
                 /\ proc' = [proc EXCEPT ![p] =
                                Over([pr EXCEPT !.nSetT = @ + 1], "done", pr.val)]
            ELSE /\ redis' = redis
                 /\ proc' = [proc EXCEPT ![p] = Raise(pr, "tset")]
    /\ UNCHANGED <<now, db, dbWrites, started, admins, tokens, lastQuery, rows, signed, wx, rejected, issued, card>>

\* time passes; Redis drops the entries whose EX has run out
Tick ==
    /\ now + TickStep <= MaxNow
    /\ now' = now + TickStep
    /\ redis' = [k \in Keys |->
                   IF Live(redis[k], now + TickStep) THEN redis[k] ELSE NoEntry]
    /\ UNCHANGED <<db, dbWrites, proc, started, admins, tokens, lastQuery, rows, signed, wx, rejected, issued, card>>

\* the steps of a request once it has begun
Run(p) ==
    \/ get_access_token_cached(p)
    \/ get_access_token_component(p)
    \/ get_access_token_fetch(p)
    \/ update_refresh_token(p)
    \/ get_access_token_store(p)
    \/ get_ticket_cached(p)
    \/ get_ticket_fetch(p)
    \/ get_ticket_store(p)

\* concurrent requests of one tenant
BeginRace(p) == Begin(p, RaceTenants)

Next ==
    \E p \in Procs : BeginRace(p) \/ Run(p)

Spec == Init /\ [][Next]_vars

\* the one request slot of SpecClock
Solo == "p1"

\* a request for any tenant
BeginAny == Begin(Solo, Tenants)

NextClock ==
    \/ BeginAny
    \/ Run(Solo)
    \/ Tick

SpecClock == Init /\ [][NextClock]_vars

\* The platform accepts the connection of requests.post (line 538) or requests.get
\* (lines 569, 596) and never answers. The calls pass no timeout= argument, so
\* requests waits on the socket without limit: the request stays inside the call
\* and no step of the broker method is enabled for it any more.
platform_stalls(p) ==
    /\ proc[p].pc \in {"a_post", "t_fetch"}
    /\ proc' = [proc EXCEPT ![p].pc = "blocked"]
    /\ UNCHANGED <<now, redis, db, dbWrites, started, admins, tokens, lastQuery, rows, signed, wx, rejected, issued, card>>

NextLive ==
    \/ BeginAny
    \/ Run(Solo)
    \/ platform_stalls(Solo)

\* The worker thread that serves a request is scheduled until the method returns:
\* every enabled step of the method is eventually taken. Nothing obliges the
\* platform to answer.
SpecLive == Init /\ [][NextLive]_vars /\ WF_vars(Run(Solo))

\* a request loads the tenant row and calls send_custom_message, which starts
\* with access_token = self.get_access_token()
begin_send(p, tenants) ==
    /\ proc[p].pc \in {"idle", "done", "raised"}
    /\ started < MaxCalls
    /\ started' = started + 1
    /\ \E t \in tenants :
         proc' = [proc EXCEPT ![p] =
                    [IdleProc EXCEPT !.pc = "a_get", !.op = "send", !.t = t,
                                     !.self_rt = db[t].refresh_token]]
    /\ UNCHANGED <<now, redis, db, dbWrites, admins, tokens, lastQuery, rows, signed, wx, rejected, issued, card>>

\* the errcode values of the platform's answer that matter here: 0, and 40001
\* (invalid credential: the access token is not, or no longer, valid)
Errcodes == {"ok", "invalid_credential"}

\* send_custom_message: return requests.post(wx_url, params=params, ...).json()
\* The answer goes back to the caller as it is; the method touches neither the
\* cache nor the row. rejected remembers the token when the cache holds it.
send_custom_message_post(p) ==
    /\ proc[p].pc = "s_post"
    /\ LET pr == proc[p]
           en == redis[Key(pr.t, "access_token")]
       IN \/ /\ proc' = [proc EXCEPT ![p] = Raise(pr, "spost")]
             /\ UNCHANGED rejected
          \/ \E c \in Errcodes :
               /\ proc' = [proc EXCEPT ![p] = Over([pr EXCEPT !.errcode = c], "done", NoToken)]
               /\ rejected' = IF c = "invalid_credential" /\ Live(en, now) /\ en.val = pr.acc
                              THEN rejected \cup {pr.acc}
                              ELSE rejected
    /\ UNCHANGED <<now, redis, db, dbWrites, started, admins, tokens, lastQuery, rows, signed, wx,
                   issued, card>>

NextInvalid ==
    \/ BeginAny
    \/ begin_send(Solo, Tenants)
    \/ Run(Solo)
    \/ send_custom_message_post(Solo)

SpecInvalid == Init /\ [][NextInvalid]_vars

\* The worker process dies inside get_access_token, between two of its steps.
\* No transaction spans the method: self.save() (line 443) and redis_client.set
\* (line 547) are each committed when they return, so the row and the cache stay
\* as the steps taken so far left them. The record keeps where the request was
\* and what it had received.
crash(p) ==
    /\ proc[p].pc \in {"a_get", "a_comp", "a_post", "a_upd", "a_set"}
    /\ proc' = [proc EXCEPT ![p].pc = "crashed", ![p].failedAt = proc[p].pc]
    /\ UNCHANGED <<now, redis, db, dbWrites, started, admins, tokens, lastQuery, rows, signed, wx, rejected, issued, card>>

\* after the crash a new request loads the same tenant row and calls
\* get_access_token
restart(p) ==
    /\ proc[p].pc = "crashed"
    /\ started < MaxCalls
    /\ started' = started + 1
    /\ proc' = [proc EXCEPT ![p] =
                  [IdleProc EXCEPT !.pc = "a_get", !.op = "access", !.t = proc[p].t,
                                   !.self_rt = db[proc[p].t].refresh_token,
                                   !.after = proc[p].failedAt]]
    /\ UNCHANGED <<now, redis, db, dbWrites, admins, tokens, lastQuery, rows, signed, wx, rejected, issued, card>>

NextCrash ==
    \/ BeginAny
    \/ Run(Solo)
    \/ crash(Solo)
    \/ restart(Solo)

SpecCrash == Init /\ [][NextCrash]_vars

\* one request after the other, on every tenant and every credential kind,
\* within one clock instant
NextSerial ==
    \/ BeginAny
    \/ Run(Solo)

SpecSerial == Init /\ [][NextSerial]_vars

\* the steps of a request, the platform's answers followed
RunIssued(p) ==
    \/ get_access_token_cached(p)
    \/ get_access_token_component(p)
    \/ get_access_token_fetch_issued(p)
    \/ update_refresh_token(p)
    \/ get_access_token_store(p)
    \/ get_ticket_cached(p)
    \/ get_ticket_fetch(p)
    \/ get_ticket_store(p)

\* the requests of Spec, the platform's answers followed
NextIssued ==
    \E p \in Procs : BeginRace(p) \/ RunIssued(p)

SpecIssued == Init /\ [][NextIssued]_vars

\* a request loads the row of a tenant and calls unauthorized(): "if
\* self.authorized", the flag and update_time are assigned and saved
revoke(t) ==
    /\ db[t].authorized
    /\ db' = [db EXCEPT ![t].authorized = FALSE, ![t].update_time = now]
    /\ dbWrites' = [dbWrites EXCEPT ![t] = @ + 1]
    /\ UNCHANGED <<now, redis, proc, started, admins, tokens, lastQuery, rows, signed, wx, rejected, issued, card>>

\* one request after the other, while tenants revoke their authorization
NextRevoke ==
    \/ BeginAny
    \/ Run(Solo)
    \/ \E t \in Tenants : revoke(t)

SpecRevoke == Init /\ [][NextRevoke]_vars

---------------------------------------------------------------------------
(* The credential broker's claims *)

Max0(x) == IF x > 0 THEN x ELSE 0

\* C1: a get_access_token call that misses the cache and gets a complete answer
\* from the platform makes exactly one component-token acquisition and one
\* authorizer-token fetch and stores the token in the cache; a call that finds a
\* live cache entry makes no platform fetch and no table write and returns the
\* cached token of its tenant.
C1Claim ==
    \A p \in Procs :
        LET pr == proc[p] IN
        (pr.op = "access" /\ Finished(pr)) =>
            /\ pr.resp = "full" =>
                 /\ pr.pc = "done"
                 /\ pr.nComp = 1 /\ pr.nAuth = 1 /\ pr.nSetA = 1
                 /\ pr.res # NoToken
            /\ pr.hit =>
                 /\ pr.nComp = 0 /\ pr.nAuth = 0 /\ pr.nDb = 0 /\ pr.nSetA = 0
                 /\ pr.res.t = pr.t /\ pr.res.k = "access_token"

\* C2: every credential is stored with ttl = max(expires_in - 600, 0): the ttl
\* handed to the cache is that value, the store never fails, and every cache
\* entry lives max(expires_in - 600, 0) seconds from its write (3000 for 3600).
C2Claim ==
    /\ \A p \in Procs :
         /\ proc[p].pc \in {"a_set", "t_set"} => CacheTtl(proc[p].e) = Max0(proc[p].e - 600)
         /\ proc[p].failedAt \notin {"set", "tset"}
    /\ \A key \in Keys :
         redis[key].present =>
             /\ redis[key].ttl
             /\ redis[key].exp - redis[key].setAt = Max0(redis[key].val.e - 600)

\* C3: a credential returned from the cache is not past its cache expiry (an
\* entry is gone once its ttl of expires_in - 600 has elapsed since the write), and
\* it has at least 600 seconds of platform-side lifetime left.
C3Claim ==
    /\ \A key \in Keys :
         RedisGet(key) # NoToken => now < redis[key].setAt + CacheTtl(redis[key].val.e)
    /\ \A p \in Procs : proc[p].hit => proc[p].left >= 600

\* C4: no broker method ever raises to its caller.
C4Claim ==
    \A p \in Procs : proc[p].pc # "raised"

\* the update_refresh_token step of request p
RotationStep(p) == proc[p].pc = "a_upd" /\ proc'[p].pc = "a_set"

\* C5: when the refresh_token of the platform's answer equals the one stored for
\* the tenant, the table receives no write and the row (update timestamp
\* included) stays as it is.
C5Claim ==
    [][\A p \in Procs :
         (RotationStep(p) /\ proc[p].nrt = db[proc[p].t].refresh_token)
            => (dbWrites' = dbWrites /\ db' = db)]_vars

\* C6: when the refresh_token of a complete answer differs from the stored one,
\* the table receives exactly one update and then stores the returned value.
C6Claim ==
    [][\A p \in Procs :
         (RotationStep(p) /\ proc[p].nrt # db[proc[p].t].refresh_token)
            => /\ dbWrites'[proc[p].t] = dbWrites[proc[p].t] + 1
               /\ db'[proc[p].t].refresh_token = proc[p].nrt]_vars

\* C7: an authorizer-token answer that lacks access_token, expires_in or
\* refresh_token makes the call return None without a table write or a cache
\* write; a ticket answer that lacks ticket or expires_in makes the ticket getter
\* return None without writing the ticket to the cache.
C7Theorem ==
    \A p \in Procs :
        LET pr == proc[p] IN
        /\ pr.resp = "partial" =>
             /\ pr.pc = "done" /\ pr.res = NoToken
             /\ pr.nDb = 0 /\ pr.nSetA = 0 /\ pr.nTicket = 0 /\ pr.nSetT = 0
        /\ pr.tresp = "partial" =>
             /\ pr.pc = "done" /\ pr.res = NoToken
             /\ pr.nSetT = 0

\* C7 witness: one request got an incomplete authorizer-token answer, another an
\* incomplete ticket answer
C7Witness ==
    \E p, q \in Procs :
        /\ proc[p].resp = "partial" /\ proc[p].pc = "done"
        /\ proc[q].tresp = "partial" /\ proc[q].pc = "done"

\* C8: two get_access_token calls of one tenant that both miss the cache and both
\* get a complete answer both return the token the platform issued to them, the
\* cache entry is the token of one of them, and the cache never holds a token
\* that was not issued for its tenant.
C8Claim ==
    /\ \A key \in Keys :
         redis[key].present => redis[key].val.t = key[2] /\ redis[key].val.k = key[3]
    /\ \A p, q \in Procs :
         LET a == proc[p]
             b == proc[q]
         IN (/\ p # q /\ a.t = b.t
             /\ a.op = "access" /\ b.op = "access"
             /\ Finished(a) /\ Finished(b)
             /\ a.resp = "full" /\ b.resp = "full")
            => /\ a.pc = "done" /\ a.res.by = p /\ a.res.t = a.t
               /\ b.pc = "done" /\ b.res.by = q /\ b.res.t = b.t
               /\ redis[Key(a.t, "access_token")].val \in {a.res, b.res}

\* C17: within one call each platform endpoint is called at most once: a failed
\* fetch is not attempted again before the call returns.
C17Theorem ==
    \A p \in Procs : proc[p].nComp <= 1 /\ proc[p].nAuth <= 1 /\ proc[p].nTicket <= 1

\* C17 witness: a ticket call went through the three endpoints once each, the
\* ticket endpoint's answer was incomplete, and the call returned absent
C17Witness ==
    \E p \in Procs :
        /\ proc[p].op # "access" /\ proc[p].pc = "done" /\ proc[p].res = NoToken
        /\ proc[p].nComp = 1 /\ proc[p].nAuth = 1 /\ proc[p].nTicket = 1
        /\ proc[p].tresp = "partial"

\* C18: with the component token absent, get_access_token makes no
\* authorizer-token call, no table write and no cache write; with the access token
\* absent, a ticket method makes no ticket call and no cache write; and a ticket
\* call that misses its cache while the access token is cached makes exactly one
\* ticket fetch and no access-token fetch.
C18Theorem ==
    \A p \in Procs :
        LET pr == proc[p] IN
        /\ pr.comp = "absent" =>
              /\ pr.nAuth = 0 /\ pr.nDb = 0 /\ pr.nSetA = 0
              /\ Finished(pr) => (pr.pc = "done" /\ pr.res = NoToken)
        /\ (pr.op # "access" /\ (pr.comp = "absent" \/ pr.resp = "partial")) =>
              (pr.nTicket = 0 /\ pr.nSetT = 0)
        /\ (pr.op # "access" /\ Finished(pr) /\ ~pr.hit /\ pr.comp = "none") =>
              (pr.nTicket = 1 /\ pr.nComp = 0 /\ pr.nAuth = 0)

\* C18 witness: one ticket call ended on an absent component token, another
\* missed the ticket cache, found the access token cached and returned a ticket
C18Witness ==
    \E p, q \in Procs :
        /\ proc[p].op # "access" /\ proc[p].pc = "done" /\ proc[p].comp = "absent"
        /\ proc[q].op # "access" /\ proc[q].pc = "done" /\ ~proc[q].hit
        /\ proc[q].comp = "none" /\ proc[q].nTicket = 1 /\ proc[q].res # NoToken

\* C19: every getAccessToken / getDerivedTicket call eventually returns: a request
\* that entered a broker method is eventually over (returned or raised), also when
\* the platform never answers.
C19Claim ==
    \A p \in Procs : (proc[p].pc # "idle") ~> Finished(proc[p])

\* C20: after a platform call made with a cached access token was answered with
\* an invalid-credential error, a later getAccessToken(T) that is answered from
\* the cache does not return that same token.
C20Claim ==
    \A p \in Procs :
        (proc[p].op = "access" /\ proc[p].pc = "done" /\ proc[p].hit)
            => proc[p].res \notin rejected

\* C21: the rotation write and the cache set are committed one by one, rotation
\* first. A request that crashed before the cache set had written no
\* access-token entry, and one that crashed after the rotation step left the
\* answered refresh_token in the row. A get_access_token call made after the
\* crash, when the platform answers completely, returns the token it fetched,
\* valid and cached; when it finds an entry, it returns that entry.
C21Claim ==
    \A p \in Procs :
        LET pr == proc[p]
            en == redis[Key(pr.t, "access_token")]
        IN /\ pr.pc = "crashed" => pr.nSetA = 0
           /\ (pr.pc = "crashed" /\ pr.failedAt = "a_set")
                 => db[pr.t].refresh_token = pr.nrt
           /\ (pr.after # "" /\ Finished(pr) /\ pr.resp = "full")
                 => /\ pr.pc = "done"
                    /\ pr.res # NoToken /\ pr.res.t = pr.t /\ pr.res.by = p
                    /\ now < PlatformExpiry(pr.res)
                    /\ en.present /\ en.val = pr.res
           /\ (pr.after # "" /\ Finished(pr) /\ pr.hit)
                 => pr.pc = "done" /\ pr.res = en.val

\* C22: concurrent rotation writes of one tenant are resolved by last write
\* wins and never surface as an error: every rotation write leaves its own
\* refresh_token stored and its request goes on to the cache set, and two
\* get_access_token calls of one tenant that each wrote a rotation both return
\* the access token issued to them.
C22Claim ==
    /\ [][\A p \in Procs :
            (RotationStep(p) /\ proc'[p].nDb = proc[p].nDb + 1)
               => db'[proc[p].t].refresh_token = proc[p].nrt]_vars
    /\ [](\A p, q \in Procs :
            LET a == proc[p]
                b == proc[q]
            IN (/\ p # q /\ a.t = b.t
                /\ a.op = "access" /\ b.op = "access"
                /\ Finished(a) /\ Finished(b)
                /\ a.nDb = 1 /\ b.nDb = 1)
               => /\ a.pc = "done" /\ a.res # NoToken /\ a.res.by = p
                  /\ b.pc = "done" /\ b.res # NoToken /\ b.res.by = q)

\* the credential kinds a broker method reads and writes for its tenant
Chain(op) ==
    IF op = "access" THEN {"access_token"}
    ELSE IF op = "jsapi" THEN {"access_token", "jsapi_ticket"}
    ELSE {"access_token", "card_api_ticket"}

\* C26: cache entries are isolated by (tenant, kind). A step of a request
\* changes only entries of the request's tenant and of the kinds on its own
\* chain: every entry of another tenant and the entry of the other ticket kind
\* stay as they are. What a request returns was issued for its tenant and is of
\* the kind it asked for: never a jsapi ticket for a card request or the
\* reverse.
C26Theorem ==
    /\ [][\A key \in DOMAIN redis :
            redis'[key] # redis[key]
               => \E p \in Procs :
                     /\ proc'[p] # proc[p]
                     /\ key[2] = proc[p].t
                     /\ key[3] \in Chain(proc[p].op)]_vars
    /\ [](\A p \in Procs :
            (proc[p].pc = "done" /\ proc[p].res # NoToken)
               => /\ proc[p].res.t = proc[p].t
                  /\ proc[p].op = "access" => proc[p].res.k = "access_token"
                  /\ proc[p].op = "jsapi" => proc[p].res.k = "jsapi_ticket"
                  /\ proc[p].op = "card" => proc[p].res.k = "card_api_ticket")

\* C26 witness: with a jsapi ticket cached for each of two tenants, a card
\* ticket request of one of them fetched and returned a card ticket
C26Witness ==
    \E p \in Procs :
        /\ redis[<<"wx_authorizer", "wxA", "jsapi_ticket">>].present
        /\ redis[<<"wx_authorizer", "wxB", "jsapi_ticket">>].present
        /\ proc[p].op = "card" /\ proc[p].pc = "done" /\ ~proc[p].hit
        /\ proc[p].res # NoToken /\ proc[p].nSetT = 1

\* C27: once every get_access_token call made so far is over, the refresh_token
\* stored for the tenant is the one the platform issued last for it.
C27Claim ==
    \A t \in Tenants :
        ((\A p \in Procs : proc[p].pc \in {"idle", "done", "raised"}) /\ issued[t] # "")
            => db[t].refresh_token = issued[t]

\* C28: revocation neither touches the credential cache nor gates the fetch
\* path. The step that sets the authorization flag to false leaves every cache
\* entry as it is. The cache lookup of get_access_token answers with the live
\* entry of the tenant, and goes on to the platform when there is none,
\* whatever the flag says; and a request of a revoked tenant whose fetch got a
\* complete answer with a lifetime above the refresh margin returns its token.
C28Theorem ==
    /\ [][\A t \in Tenants :
            db'[t].authorized # db[t].authorized => redis' = redis]_vars
    /\ [][\A p \in Procs :
            (proc[p].pc = "a_get" /\ proc[p].op = "access" /\ proc'[p] # proc[p])
               => LET en == redis[<<"wx_authorizer", proc[p].t, "access_token">>]
                  IN IF en.present /\ (en.ttl => now < en.exp)
                     THEN proc'[p].pc = "done" /\ proc'[p].res = en.val
                     ELSE proc'[p].pc = "a_comp"]_vars
    /\ [](\A p \in Procs :
            (/\ ~db[proc[p].t].authorized /\ proc[p].op = "access" /\ Finished(proc[p])
             /\ proc[p].resp = "full" /\ proc[p].e > RefreshAhead)
               => proc[p].pc = "done" /\ proc[p].res # NoToken)

\* C28 witness: a tenant revoked its authorization while its access token was
\* cached, and a later get_access_token call was answered from the cache
C28Witness ==
    \E p \in Procs :
        /\ ~db[proc[p].t].authorized
        /\ proc[p].op = "access" /\ proc[p].pc = "done" /\ proc[p].hit
        /\ proc[p].res # NoToken
        /\ redis[Key(proc[p].t, "access_token")].setAt <= db[proc[p].t].update_time

---------------------------------------------------------------------------
(* Session tokens: Admin.generate_token and Admin.query_by_token *)

\* days the clock of SpecSession runs
MaxDays == 7
\* session tokens handed out in one behaviour
MaxTokens == 1
\* the primary keys the admin table hands out, in this order (one digit, then
\* two)
AdminIds == {9, 10}

\* constants.py
ADMIN_TOKEN_TAG == <<"a", "d", "m", "i", "n">>
ADMIN_TOKEN_VALID_DAYS == 7
\* "86400 *" in generate_token
DaySeconds == 86400

Digits == <<"0", "1", "2", "3", "4", "5", "6", "7", "8", "9">>
IsDigit(c) == \E d \in 1..10 : Digits[d] = c
DigitVal(c) == (CHOOSE d \in 1..10 : Digits[d] = c) - 1

\* '%s' % n for an int n >= 0
RECURSIVE IntToStr(_)
IntToStr(n) ==
    IF n < 10 THEN <<Digits[n + 1]>>
    ELSE IntToStr(n \div 10) \o <<Digits[(n % 10) + 1]>>

\* int(s) succeeds
IsInt(s) == Len(s) > 0 /\ \A i \in 1..Len(s) : IsDigit(s[i])

\* int(s)
RECURSIVE StrToInt(_)
StrToInt(s) ==
    IF Len(s) = 0 THEN 0
    ELSE 10 * StrToInt(SubSeq(s, 1, Len(s) - 1)) + DigitVal(s[Len(s)])

\* s.split(':')
RECURSIVE Split(_)
Split(s) ==
    IF \E i \in 1..Len(s) : s[i] = ":"
    THEN LET i == CHOOSE j \in 1..Len(s) : s[j] = ":" /\ \A k \in 1..(j - 1) : s[k] # ":"
         IN <<SubSeq(s, 1, i - 1)>> \o Split(SubSeq(s, i + 1, Len(s)))
    ELSE <<s>>

\* '%s:%s:%s' % (a, b, c)
Format3(a, b, c) == a \o <<":">> \o b \o <<":">> \o c

RECURSIVE Reverse(_)
Reverse(s) == IF Len(s) = 0 THEN <<>> ELSE Reverse(Tail(s)) \o <<Head(s)>>

\* utils.aes_util.encrypt: the ciphertext of a plaintext under the process key
encrypt(plain) == <<"K">> \o Reverse(plain)

\* utils.aes_util.decrypt: the plaintext, or a decode error for anything the
\* key did not produce
decrypt(cipher) ==
    IF Len(cipher) > 0 /\ Head(cipher) = "K"
    THEN [ok |-> TRUE, text |-> Reverse(Tail(cipher))]
    ELSE [ok |-> FALSE, text |-> <<>>]

\* variant of query_by_id that finds only admins who never changed their password
query_by_id_Unchanged(_id) ==
    IF IsInt(_id) /\ StrToInt(_id) \in admins /\ rows[StrToInt(_id)].password = 0
    THEN StrToInt(_id) ELSE 0

\* BaseModel.query_by_id on Admin: the row's id, 0 for None
query_by_id(_id) ==
    IF IsInt(_id) /\ StrToInt(_id) \in admins THEN StrToInt(_id) ELSE 0

\* variant of NotExpired that still accepts a token at its expiry instant
NotExpired_Inclusive(expires) == expires >= now

\* "assert int(expires) > time.time()"
NotExpired(expires) == expires > now

\* variant of TagMatches that accepts every role tag
TagMatches_Any(tag) == TRUE

\* "assert tag == ADMIN_TOKEN_TAG"
TagMatches(tag) == tag = ADMIN_TOKEN_TAG

\* variant of query_by_token that unpacks the first three fields and ignores
\* the rest
query_by_token_FirstThree(token) ==
    LET d == decrypt(token) IN
    IF ~d.ok THEN 0
    ELSE LET f == Split(d.text) IN
         IF Len(f) < 3 THEN 0
         ELSE IF ~TagMatches(f[1]) THEN 0
         ELSE IF ~IsInt(f[3]) THEN 0
         ELSE IF ~NotExpired(StrToInt(f[3])) THEN 0
         ELSE query_by_id(f[2])

\* Admin.query_by_token: the admin's id, 0 for None (every exception is
\* logged and None returned)
query_by_token(token) ==
    LET d == decrypt(token) IN
    IF ~d.ok THEN 0
    ELSE LET f == Split(d.text) IN
         IF Len(f) # 3 THEN 0
         ELSE IF ~TagMatches(f[1]) THEN 0
         ELSE IF ~IsInt(f[3]) THEN 0
         ELSE IF ~NotExpired(StrToInt(f[3])) THEN 0
         ELSE query_by_id(f[2])

\* variant of generate_token that embeds the issue time as the expiry
generate_token_NoValidity(id) ==
    encrypt(Format3(ADMIN_TOKEN_TAG, IntToStr(id), IntToStr(now)))

\* Admin.generate_token of the admin with the given id
generate_token(id) ==
    encrypt(Format3(ADMIN_TOKEN_TAG, IntToStr(id),
                    IntToStr(now + DaySeconds * ADMIN_TOKEN_VALID_DAYS)))

\* the next primary key of table admin
NextAdminId == CHOOSE id \in AdminIds \ admins : \A other \in AdminIds \ admins : id <= other

\* Admin.create_admin: the table hands out the next primary key
CreateAdmin ==
    /\ admins # AdminIds
    /\ admins' = admins \cup {NextAdminId}
    /\ UNCHANGED <<now, redis, db, dbWrites, proc, started, tokens, lastQuery, rows, signed, wx, rejected, issued, card>>

\* Admin.create_admin with the columns the account operations change: the
\* password (counted from the one given here), update_time, last_login_time
create_admin ==
    /\ admins # AdminIds
    /\ admins' = admins \cup {NextAdminId}
    /\ rows' = [id \in admins \cup {NextAdminId} |->
                  IF id \in admins THEN rows[id]
                  ELSE [password |-> 0, update_time |-> now, last_login_time |-> 0]]
    /\ UNCHANGED <<now, redis, db, dbWrites, proc, started, tokens, lastQuery, signed, wx, rejected, issued, card>>

\* the password column of a row, where the columns are followed
password_of(id) == IF id \in DOMAIN rows THEN rows[id].password ELSE 0

\* an admin logs in and is handed generate_token()
IssueToken ==
    /\ Cardinality(tokens) < MaxTokens
    /\ \E id \in admins :
         tokens' = tokens \cup {[token |-> generate_token(id), subject |-> id, iat |-> now,
                                 pw |-> password_of(id)]}
    /\ UNCHANGED <<now, redis, db, dbWrites, proc, started, admins, lastQuery, rows, signed, wx, rejected, issued, card>>

\* a request presents a token it was handed: Admin.query_by_token(token)
QueryToken ==
    /\ \E tok \in tokens :
         lastQuery' = [asked |-> TRUE, tok |-> tok, at |-> now,
                       pw |-> password_of(tok.subject),
                       result |-> query_by_token(tok.token)]
    /\ UNCHANGED <<now, redis, db, dbWrites, proc, started, admins, tokens, rows, signed, wx, rejected, issued, card>>

\* the clock of SpecSession: a day, or a second short of a day
TickDay ==
    /\ \E d \in {DaySeconds - 1, DaySeconds} :
         /\ now + d <= MaxDays * DaySeconds
         /\ now' = now + d
    /\ UNCHANGED <<redis, db, dbWrites, proc, started, admins, tokens, lastQuery, rows, signed, wx, rejected, issued, card>>

NextSession ==
    \/ CreateAdmin
    \/ IssueToken
    \/ QueryToken
    \/ TickDay

SpecSession == Init /\ [][NextSession]_vars

\* change_password and login calls in one behaviour
MaxChanges == 2

\* role tags of tokens that other issuers encrypt with the same key
OtherTags == {<<"w", "x", "_", "u", "s", "e", "r">>, <<"a", "d", "m", "i", "n", "s">>}

\* a token another issuer built for a subject: encrypt('tag:id:expires')
foreign_token(tag, id, expires) ==
    encrypt(Format3(tag, IntToStr(id), IntToStr(expires)))

\* the i-th field of a token's plaintext
TokenField(token, i) == Split(decrypt(token).text)[i]

\* a request presents a token carrying another role tag, for any subject and
\* with an expiry in the past or in the future
QueryForeign ==
    /\ \E tag \in OtherTags, id \in AdminIds,
          expires \in {0, now + DaySeconds * ADMIN_TOKEN_VALID_DAYS} :
         LET t == foreign_token(tag, id, expires) IN
         lastQuery' = [asked |-> TRUE,
                       tok |-> [token |-> t, subject |-> id, iat |-> now, pw |-> 0],
                       at |-> now, pw |-> 0, result |-> query_by_token(t)]
    /\ UNCHANGED <<now, redis, db, dbWrites, proc, started, admins, tokens, rows, signed, wx, rejected, issued, card>>

\* change_password and login calls made so far
Changes == LET Sum[S \in SUBSET admins] ==
                   IF S = {} THEN 0
                   ELSE LET id == CHOOSE x \in S : TRUE
                        IN rows[id].password + rows[id].last_login_time + Sum[S \ {id}]
           IN Sum[admins]

\* Admin.change_password: a new password hash and update_time, saved
change_password ==
    /\ Changes < MaxChanges
    /\ \E id \in admins :
         rows' = [rows EXCEPT ![id].password = @ + 1, ![id].update_time = now]
    /\ UNCHANGED <<now, redis, db, dbWrites, proc, started, admins, tokens, lastQuery, signed, wx, rejected, issued, card>>

\* Admin.login: last_login_time (counted) and last_login_ip, saved
login ==
    /\ Changes < MaxChanges
    /\ \E id \in admins :
         rows' = [rows EXCEPT ![id].last_login_time = @ + 1]
    /\ UNCHANGED <<now, redis, db, dbWrites, proc, started, admins, tokens, lastQuery, signed, wx, rejected, issued, card>>

\* the clock of SpecAccount: to the last second a token of the first instant is
\* valid
TickWeek ==
    /\ now + DaySeconds * ADMIN_TOKEN_VALID_DAYS - 1 <= MaxDays * DaySeconds
    /\ now' = now + DaySeconds * ADMIN_TOKEN_VALID_DAYS - 1
    /\ UNCHANGED <<redis, db, dbWrites, proc, started, admins, tokens, lastQuery, rows, signed, wx, rejected, issued, card>>

NextAccount ==
    \/ create_admin
    \/ IssueToken
    \/ QueryToken
    \/ QueryForeign
    \/ change_password
    \/ login
    \/ TickWeek

SpecAccount == Init /\ [][NextAccount]_vars

\* plaintexts that are not 'tag:id:expires': fewer fields, more fields, a
\* subject id that holds a colon; all with the admin tag, an existing kind of
\* id and an expiry that would pass
MalformedPlains(id, expires) ==
    LET a == ADMIN_TOKEN_TAG
        i == IntToStr(id)
        e == IntToStr(expires)
    IN {<<>>,
        a,
        a \o <<":">> \o i,
        a \o <<":">> \o e,
        Format3(a, i, e) \o <<":">> \o e,
        Format3(a, i \o <<":">> \o i, e),
        Format3(a, i, e) \o <<":">>}

\* ciphertexts the key did not produce: nothing, a token without its first
\* byte, a token under another first byte
Undecryptable(id, expires) ==
    LET t == encrypt(Format3(ADMIN_TOKEN_TAG, IntToStr(id), IntToStr(expires)))
    IN {<<>>, Tail(t), <<"J">> \o Tail(t)}

\* the tokens of both kinds that can be presented now for a subject
BadTokens(id) ==
    LET expires == now + DaySeconds * ADMIN_TOKEN_VALID_DAYS
    IN {encrypt(m) : m \in MalformedPlains(id, expires)} \cup Undecryptable(id, expires)

\* a request presents a token that does not decrypt, or whose plaintext is not
\* three fields
QueryMalformed ==
    /\ \E id \in AdminIds : \E t \in BadTokens(id) :
         lastQuery' = [asked |-> TRUE,
                       tok |-> [token |-> t, subject |-> id, iat |-> now, pw |-> 0],
                       at |-> now, pw |-> 0, result |-> query_by_token(t)]
    /\ UNCHANGED <<now, redis, db, dbWrites, proc, started, admins, tokens, rows, signed, wx, rejected, issued, card>>

NextMalformed ==
    \/ CreateAdmin
    \/ QueryMalformed
    \/ TickDay

SpecMalformed == Init /\ [][NextMalformed]_vars

---------------------------------------------------------------------------
(* The session tokens' claims *)

\* the instant a token handed out at iat stops being valid
TokenExpiry(tok) == tok.iat + ADMIN_TOKEN_VALID_DAYS * DaySeconds

\* C9: a token presented before its expiry instant identifies the admin it was
\* issued to, and query_by_token(generate_token()) evaluated at once returns the
\* issuing admin.
C9Theorem ==
    /\ (lastQuery.asked /\ lastQuery.at < TokenExpiry(lastQuery.tok))
          => lastQuery.result = lastQuery.tok.subject
    /\ \A id \in admins : query_by_token(generate_token(id)) = id

\* C9 witness: a token of an admin with a two-digit id was presented in the
\* second it was issued and identified that admin
C9Witness ==
    /\ lastQuery.asked
    /\ lastQuery.at = lastQuery.tok.iat
    /\ lastQuery.tok.subject >= 10
    /\ lastQuery.result = lastQuery.tok.subject

---------------------------------------------------------------------------
(* Card signatures: WXAuthorizer.generate_card_sign *)

\* entries of a parameter dict
MaxParams == 2

\* keys and values of the parameter dicts, and card api tickets
ParamKeys == {"card_id", "code", "openid"}
ParamValues == {<<"a">>, <<"b">>, <<"a", "b">>}
Tickets == {<<"t">>, <<"a">>}

\* the bytes in their order
Bytes == <<"0", "1", "2", "3", "4", "5", "6", "7", "8", "9", "A", "B", "a", "b", "t", "w", "x">>
Ord(c) == CHOOSE i \in 1..Len(Bytes) : Bytes[i] = c

\* x < y for str: byte-wise, a proper prefix before the longer string
RECURSIVE StrLess(_, _)
StrLess(x, y) ==
    IF Len(y) = 0 THEN FALSE
    ELSE IF Len(x) = 0 THEN TRUE
    ELSE IF Head(x) # Head(y) THEN Ord(Head(x)) < Ord(Head(y))
    ELSE StrLess(Tail(x), Tail(y))

\* one item put into a sorted list, after the items not greater than it
RECURSIVE Insert(_, _)
Insert(x, sorted) ==
    IF Len(sorted) = 0 THEN <<x>>
    ELSE IF StrLess(x, Head(sorted)) THEN <<x>> \o sorted
    ELSE <<Head(sorted)>> \o Insert(x, Tail(sorted))

\* variant of SortItems that leaves the items in the order they came in
SortItems_AsGiven(items) == items

\* items.sort()
RECURSIVE SortItems(_)
SortItems(items) ==
    IF Len(items) = 0 THEN <<>> ELSE Insert(Head(items), SortItems(Tail(items)))

\* ''.join(items)
RECURSIVE Join(_)
Join(items) == IF Len(items) = 0 THEN <<>> ELSE Head(items) \o Join(Tail(items))

\* hashlib.sha1(s).hexdigest(): the digest stands for the bytes it was made of
sha1(s) == <<"sha1">> \o s

\* data.values(), in the order the dict iterates
DictValues(data) == [i \in 1..Len(data) |-> data[i][2]]

\* dicts of up to MaxParams entries, as their items in iteration order
ParamDicts ==
    {d \in UNION {[1..n -> ParamKeys \X ParamValues] : n \in 0..MaxParams} :
        \A i, j \in 1..Len(d) : i # j => d[i][1] # d[j][1]}

\* variant of generate_card_sign that signs the values alone
generate_card_sign_NoTicket(data, card_api_ticket) ==
    sha1(Join(SortItems(DictValues(data))))

\* None, and the empty str: what "if not x" takes for absent
None == <<>>

\* variant of generate_card_sign without "if not card_api_ticket: return"
generate_card_sign_Unchecked(data, card_api_ticket) ==
    sha1(Join(SortItems(Append(DictValues(data), card_api_ticket))))

\* WXAuthorizer.generate_card_sign(data), given what get_card_api_ticket returned
generate_card_sign(data, card_api_ticket) ==
    IF card_api_ticket = None THEN None
    ELSE sha1(Join(SortItems(Append(DictValues(data), card_api_ticket))))

\* two dicts are signed with the same card api ticket
Sign ==
    /\ ~signed.done
    /\ \E a \in ParamDicts, b \in ParamDicts, t \in Tickets :
         signed' = [done |-> TRUE, a |-> a, b |-> b, ticket |-> t,
                    sa |-> generate_card_sign(a, t), sb |-> generate_card_sign(b, t)]
    /\ UNCHANGED <<now, redis, db, dbWrites, proc, started, admins, tokens, lastQuery, rows, wx, rejected, issued, card>>

NextSign == Sign

SpecSign == Init /\ [][NextSign]_vars

\* params[key] = value when value is given ("if code:"), params as it is
\* otherwise
Given(params, key, value) == IF value # None THEN Append(params, <<key, value>>) ELSE params

\* WXAuthorizer.generate_add_card_params, given str(int(time.time())), what
\* generate_random_key(16) returned and what get_card_api_ticket returned
generate_add_card_params(card_id, code, openid, timestamp, nonce, card_api_ticket) ==
    LET params == Given(Given(<<<<"cardId", card_id>>, <<"timestamp", timestamp>>,
                                <<"nonce_str", nonce>>>>,
                              "code", code),
                        "openid", openid)
    IN Append(params, <<"signature", generate_card_sign(params, card_api_ticket)>>)

\* WXAuthorizer.generate_choose_card_params, given the same
generate_choose_card_params(appid, shop_id, card_type, card_id, timestamp, nonce, card_api_ticket) ==
    LET params == Given(Given(Given(<<<<"appId", appid>>, <<"timestamp", timestamp>>,
                                      <<"nonceStr", nonce>>>>,
                                    "shopId", shop_id),
                              "cardType", card_type),
                        "cardId", card_id)
    IN Append(Append(params, <<"cardSign", generate_card_sign(params, card_api_ticket)>>),
              <<"signType", <<"S", "H", "A", "1">>>>)

\* the appids as str, optional arguments (given or not), and random keys
AppIds == {<<"w", "x", "A">>, <<"w", "x", "B">>}
Optional == {None, <<"b">>}
Nonces == {<<"a", "b">>, <<"b", "a">>}

\* the value a returned dict holds under a key
Field(map, key) == map[CHOOSE i \in 1..Len(map) : map[i][1] = key][2]
HasField(map, key) == \E i \in 1..Len(map) : map[i][1] = key

\* a request calls generate_add_card_params; get_card_api_ticket returns a
\* ticket or None
AddCardParams ==
    /\ ~card.called
    /\ \E card_id \in ParamValues, code \in Optional, openid \in Optional,
          nonce \in Nonces, ticket \in Tickets \cup {None} :
         LET map == generate_add_card_params(card_id, code, openid, IntToStr(now), nonce,
                                             ticket)
         IN card' = [called |-> TRUE, method |-> "add", ticket |-> ticket,
                     sign |-> Field(map, "signature"), map |-> map]
    /\ UNCHANGED <<now, redis, db, dbWrites, proc, started, admins, tokens, lastQuery, rows, signed, wx,
                   rejected, issued>>

\* a request calls generate_choose_card_params
ChooseCardParams ==
    /\ ~card.called
    /\ \E appid \in AppIds, shop_id \in Optional, card_type \in Optional,
          card_id \in Optional, nonce \in Nonces, ticket \in Tickets \cup {None} :
         LET map == generate_choose_card_params(appid, shop_id, card_type, card_id,
                                                IntToStr(now), nonce, ticket)
         IN card' = [called |-> TRUE, method |-> "choose", ticket |-> ticket,
                     sign |-> Field(map, "cardSign"), map |-> map]
    /\ UNCHANGED <<now, redis, db, dbWrites, proc, started, admins, tokens, lastQuery, rows, signed, wx,
                   rejected, issued>>

NextCard ==
    \/ AddCardParams
    \/ ChooseCardParams

SpecCard == Init /\ [][NextCard]_vars

\* how often a value occurs among a dict's values
Count(data, v) == Cardinality({i \in 1..Len(data) : data[i][2] = v})

\* the two dicts have the same multiset of values
SameValues(a, b) == \A v \in ParamValues : Count(a, v) = Count(b, v)

\* C13: for a fixed card api ticket, two parameter dicts with the same multiset of
\* values get the same signature, whatever their keys and their order; and
\* signing again gives the same signature.
C13Theorem ==
    signed.done =>
        /\ SameValues(signed.a, signed.b) => signed.sa = signed.sb
        /\ signed.sa = generate_card_sign(signed.a, signed.ticket)

\* C13 witness: two dicts with different keys and their values in a different
\* order were signed alike
C13Witness ==
    /\ signed.done
    /\ Len(signed.a) = 2 /\ Len(signed.b) = 2
    /\ SameValues(signed.a, signed.b)
    /\ signed.a[1][2] # signed.b[1][2]
    /\ {signed.a[1][1], signed.a[2][1]} # {signed.b[1][1], signed.b[2][1]}
    /\ signed.sa = signed.sb

\* the strings of a list one after the other, in the order perm gives
RECURSIVE Cat(_, _, _)
Cat(items, perm, i) ==
    IF i > Len(items) THEN <<>> ELSE items[perm[i]] \o Cat(items, perm, i + 1)

\* the orders in which n items can be arranged
Arrangements(n) == {f \in [1..n -> 1..n] : \A i, j \in 1..n : i # j => f[i] # f[j]}

\* C25: the signature is the SHA-1 digest of exactly this string: the values of
\* the parameter dict (not its keys) and the card api ticket, each once,
\* arranged in non-decreasing byte-wise order and written one after the other
\* with nothing between them.
C25Theorem ==
    signed.done =>
        LET items == DictValues(signed.a) \o <<signed.ticket>>
            n == Len(signed.a) + 1
        IN /\ \A i \in 1..Len(signed.a) : items[i] = signed.a[i][2]
           /\ \E perm \in Arrangements(n) :
                /\ \A i \in 1..(n - 1) : ~StrLess(items[perm[i + 1]], items[perm[i]])
                /\ signed.sa = sha1(Cat(items, perm, 1))

\* C25 witness: a dict of two values, given in descending order, was signed
\* with a ticket that sorts before both
C25Witness ==
    /\ signed.done
    /\ Len(signed.a) = 2
    /\ StrLess(signed.a[2][2], signed.a[1][2])
    /\ StrLess(signed.ticket, signed.a[2][2])
    /\ signed.sa = sha1(signed.ticket \o signed.a[2][2] \o signed.a[1][2])

\* C29: without a card api ticket generate_card_sign returns None and digests
\* nothing, for every parameter dict; generate_add_card_params and
\* generate_choose_card_params still return their dict, with every parameter
\* the caller gave and with None in the signature field.
C29Theorem ==
    /\ \A data \in ParamDicts : generate_card_sign(data, None) = None
    /\ (card.called /\ card.ticket = None)
          => /\ card.sign = None
             /\ Len(card.map) >= 4
             /\ HasField(card.map, "timestamp")
             /\ card.method = "add"
                   => /\ HasField(card.map, "cardId") /\ HasField(card.map, "nonce_str")
                      /\ HasField(card.map, "signature")
                      /\ Field(card.map, "signature") = None
             /\ card.method = "choose"
                   => /\ HasField(card.map, "appId") /\ HasField(card.map, "nonceStr")
                      /\ HasField(card.map, "cardSign")
                      /\ Field(card.map, "cardSign") = None
                      /\ Field(card.map, "signType") = <<"S", "H", "A", "1">>
    /\ (card.called /\ card.ticket # None) => card.sign # None

\* C29 witness: generate_choose_card_params was called with all its optional
\* arguments while get_card_api_ticket returned None, and returned its dict
C29Witness ==
    /\ card.called /\ card.method = "choose" /\ card.ticket = None
    /\ Len(card.map) = 8
    /\ Field(card.map, "cardSign") = None

\* C11: a token whose decrypted role tag is not the admin tag is rejected and
\* identifies nobody, whatever subject id and expiry it carries: so was the last
\* token presented, and so is every token built now for an existing admin with
\* an expiry in the future.
C11Theorem ==
    /\ (lastQuery.asked /\ TokenField(lastQuery.tok.token, 1) # ADMIN_TOKEN_TAG)
          => lastQuery.result = 0
    /\ \A tag \in OtherTags, id \in admins :
          query_by_token(foreign_token(tag, id, now + 1)) = 0

\* C11 witness: a token with another role tag, for an existing admin and not yet
\* expired, was presented and rejected
C11Witness ==
    /\ lastQuery.asked
    /\ TokenField(lastQuery.tok.token, 1) \in OtherTags
    /\ lastQuery.tok.subject \in admins
    /\ StrToInt(TokenField(lastQuery.tok.token, 3)) > lastQuery.at
    /\ lastQuery.result = 0

\* the token decrypts to exactly three colon-separated fields
WellFormed(token) == decrypt(token).ok /\ Len(Split(decrypt(token).text)) = 3

\* C24: a token that does not decrypt, or whose plaintext does not split into
\* exactly three colon-separated fields, identifies nobody and query_by_token
\* returns None for it: so did the last such token presented, and so does every
\* such token that can be built now for any subject.
C24Theorem ==
    /\ (lastQuery.asked /\ ~WellFormed(lastQuery.tok.token)) => lastQuery.result = 0
    /\ \A id \in AdminIds : \A t \in BadTokens(id) :
          ~WellFormed(t) /\ query_by_token(t) = 0

\* C24 witness: a token of four fields whose first three are the admin tag, the
\* id of an existing admin and an expiry in the future was presented and
\* rejected
C24Witness ==
    /\ lastQuery.asked
    /\ decrypt(lastQuery.tok.token).ok
    /\ Len(Split(decrypt(lastQuery.tok.token).text)) = 4
    /\ TokenField(lastQuery.tok.token, 1) = ADMIN_TOKEN_TAG
    /\ IsInt(TokenField(lastQuery.tok.token, 2))
    /\ StrToInt(TokenField(lastQuery.tok.token, 2)) \in admins
    /\ IsInt(TokenField(lastQuery.tok.token, 3))
    /\ StrToInt(TokenField(lastQuery.tok.token, 3)) > lastQuery.at
    /\ lastQuery.result = 0

\* C12: an issued token identifies its admin at every time before its expiry,
\* whatever change_password and login calls were made since it was issued.
C12Theorem ==
    /\ \A tok \in tokens :
          now < TokenExpiry(tok) => query_by_token(tok.token) = tok.subject
    /\ (lastQuery.asked /\ lastQuery.tok \in tokens /\ lastQuery.at < TokenExpiry(lastQuery.tok))
          => lastQuery.result = lastQuery.tok.subject

\* C12 witness: a token was presented in the last second of its life, after its
\* admin changed the password and logged in again, and identified the admin
C12Witness ==
    /\ lastQuery.asked
    /\ lastQuery.tok \in tokens
    /\ lastQuery.pw > lastQuery.tok.pw
    /\ rows[lastQuery.tok.subject].last_login_time > 0
    /\ lastQuery.at = TokenExpiry(lastQuery.tok) - 1
    /\ lastQuery.result = lastQuery.tok.subject

---------------------------------------------------------------------------
(* The wx_authorizer row: create_wx_authorizer, unauthorized,                *)
(* update_refresh_token, update_authorizer_info                              *)

\* calls made on the row in one behaviour
MaxRowCalls == 5

\* refresh tokens an authorization callback passes to create_wx_authorizer
GrantTokens == {"r1", " "}
\* func_info lists and authorizer_info dicts the platform reports, as their repr()
FuncInfos == {"f1", "f2"}
AuthorizerInfos == {"i1", "i2"}

\* refresh_token.strip()
Strip(s) == IF s = " " THEN "" ELSE s

\* what SpecTenant leaves alone
aside == <<now, redis, db, dbWrites, proc, started, admins, tokens, lastQuery, rows, signed, rejected,
          issued, card>>

\* a call is made on the row
RowCall(w) == [w EXCEPT !.calls = @ + 1]

\* self.save() with only_save_dirty: the UPDATE sets the dirty fields only
Save(o, row) ==
    [exists |-> row.exists,
     authorized |-> IF "authorized" \in o.dirty THEN o.authorized ELSE row.authorized,
     refresh_token |-> IF "refresh_token" \in o.dirty THEN o.refresh_token ELSE row.refresh_token,
     func_info |-> IF "func_info" \in o.dirty THEN o.func_info ELSE row.func_info,
     authorizer_info |-> IF "authorizer_info" \in o.dirty THEN o.authorizer_info
                         ELSE row.authorizer_info,
     update_time |-> IF "update_time" \in o.dirty THEN o.update_time ELSE row.update_time]

\* self.update_time = datetime.datetime.now(); self.save()
Stamped(o, w) == [o EXCEPT !.update_time = w.clock + 1, !.dirty = @ \cup {"update_time"}]

\* the object o of handle h has been stamped and saved
Saved(w, h, o) ==
    [w EXCEPT !.row = Save(Stamped(o, w), w.row),
              !.obj[h] = [Stamped(o, w) EXCEPT !.dirty = {}],
              !.clock = @ + 1,
              !.writes = @ + 1]

\* WXAuthorizer.create_wx_authorizer: appid is unique, a second INSERT fails and
\* the error is logged
create_wx_authorizer ==
    /\ wx.calls < MaxRowCalls
    /\ \E refresh_token \in GrantTokens, func_info \in FuncInfos :
         wx' = IF wx.row.exists THEN RowCall(wx)
               ELSE [RowCall(wx) EXCEPT
                       !.row = [exists |-> TRUE, authorized |-> TRUE,
                                refresh_token |-> Strip(refresh_token),
                                func_info |-> func_info, authorizer_info |-> "",
                                update_time |-> wx.clock + 1],
                       !.clock = @ + 1,
                       !.writes = @ + 1]
    /\ UNCHANGED aside

\* WXAuthorizer.query_by_appid: a request loads the row
query_by_appid(h) ==
    /\ wx.row.exists
    /\ wx' = [wx EXCEPT !.obj[h] =
                 [loaded |-> TRUE, authorized |-> wx.row.authorized,
                  refresh_token |-> wx.row.refresh_token, func_info |-> wx.row.func_info,
                  authorizer_info |-> wx.row.authorizer_info,
                  update_time |-> wx.row.update_time, dirty |-> {}]]
    /\ wx' # wx
    /\ UNCHANGED aside

\* WXAuthorizer.unauthorized
unauthorized(h) ==
    /\ wx.calls < MaxRowCalls
    /\ wx.obj[h].loaded
    /\ LET o == wx.obj[h] IN
       wx' = IF o.authorized
             THEN [Saved(RowCall(wx), h,
                         [o EXCEPT !.authorized = FALSE, !.dirty = @ \cup {"authorized"}])
                     EXCEPT !.revoked = TRUE]
             ELSE RowCall(wx)
    /\ UNCHANGED aside

\* WXAuthorizer.update_refresh_token on a loaded object, with the token
\* get_access_token passes (never empty: "if not all(...)")
rotate_refresh_token(h) ==
    /\ wx.calls < MaxRowCalls
    /\ wx.obj[h].loaded
    /\ \E refresh_token \in RefreshTokens :
         LET o == wx.obj[h] IN
         wx' = IF NeedsRotation(o.refresh_token, refresh_token)
               THEN Saved(RowCall(wx), h,
                          [o EXCEPT !.refresh_token = refresh_token,
                                    !.dirty = @ \cup {"refresh_token"}])
               ELSE RowCall(wx)
    /\ UNCHANGED aside

\* BaseModel.modified_fields: the object compared with the row as it is now
modified_fields(o, row) ==
    {f \in {"authorized", "refresh_token", "func_info", "authorizer_info", "update_time"} :
        o[f] # row[f]}

\* WXAuthorizer.update_authorizer_info: nothing is assigned when the component
\* token is absent, the request fails or the answer is incomplete; otherwise
\* the fields are assigned and save_if_modified() is called
update_authorizer_info(h) ==
    /\ wx.calls < MaxRowCalls
    /\ wx.obj[h].loaded
    /\ \E answered \in BOOLEAN, func_info \in FuncInfos, authorizer_info \in AuthorizerInfos :
         LET o == wx.obj[h]
             assigned == [o EXCEPT !.authorized = TRUE,
                                   !.func_info = func_info,
                                   !.authorizer_info = authorizer_info,
                                   !.dirty = @ \cup {"authorized", "func_info",
                                                     "authorizer_info"}]
             modified == modified_fields(assigned, wx.row) # {}
             after == IF modified THEN Saved(RowCall(wx), h, assigned)
                      ELSE [RowCall(wx) EXCEPT !.obj[h] = assigned]
         IN wx' = IF ~answered THEN RowCall(wx)
                  ELSE [after EXCEPT !.sync =
                          [called |-> TRUE,
                           differed |-> \/ func_info # wx.row.func_info
                                        \/ authorizer_info # wx.row.authorizer_info,
                           wrote |-> after.writes # wx.writes,
                           bumped |-> after.row.update_time # wx.row.update_time,
                           stale |-> \/ o.refresh_token # wx.row.refresh_token
                                     \/ o.update_time # wx.row.update_time]]
    /\ UNCHANGED aside

NextTenant ==
    \/ create_wx_authorizer
    \/ \E h \in Handles :
         \/ query_by_appid(h)
         \/ unauthorized(h)
         \/ rotate_refresh_token(h)
         \/ update_authorizer_info(h)

SpecTenant == Init /\ [][NextTenant]_vars

\* C14: update_authorizer_info writes only if a field of the fetched profile
\* differs from the stored one; with every field equal nothing is written and
\* update_time stays; and a write bumps update_time.
C14Claim ==
    wx.sync.called =>
        /\ wx.sync.wrote => wx.sync.differed
        /\ ~wx.sync.differed => (~wx.sync.wrote /\ ~wx.sync.bumped)
        /\ wx.sync.wrote => wx.sync.bumped

\* C15: the row's refresh_token is not empty whenever authorized is true.
C15Claim ==
    (wx.row.exists /\ wx.row.authorized) => wx.row.refresh_token # ""

\* C16: once unauthorized() has set authorized to false, the flag stays false
\* (the model has no new authorization event after the first).
C16Claim ==
    wx.revoked => ~wx.row.authorized

\* a rotation was written through handle h: update_refresh_token is the one call
\* that changes the refresh_token of a loaded object
RotationWrite(h) ==
    /\ wx'.calls = wx.calls + 1
    /\ wx'.obj[h].refresh_token # wx.obj[h].refresh_token

\* C23: a refresh_token rotation is a partial update: it changes the
\* refresh_token and the update timestamp of the row and leaves the
\* authorization flag, the scope list and the profile as they are stored.
C23Claim ==
    [][\A h \in Handles :
         RotationWrite(h)
            => /\ wx'.row.authorized = wx.row.authorized
               /\ wx'.row.func_info = wx.row.func_info
               /\ wx'.row.authorizer_info = wx.row.authorizer_info]_vars
====
